---- MODULE Spec2Model ----
(***************************************************************************)
(* State-machine model of services/store/audit_logger.py: AuditEvent,      *)
(* AuditMiddleware.dispatch and log_audit_event, with the downstream       *)
(* handler (call_next) and the logging channel as the environment.         *)
(*                                                                         *)
(* dispatch is a coroutine with a single suspension point, the             *)
(* `await call_next(request)` of line 99.  The code before it and the code *)
(* after it each run without yielding, so each is one action; the order of *)
(* the statements inside an action is kept in the history variable         *)
(* `trace`.                                                                *)
(***************************************************************************)
EXTENDS Integers, Sequences, FiniteSets, TLC

\* Number of dispatch calls the host runtime makes, numbered in the order
\* they are made; all of them can be in flight at once.
MaxRequests == 2
\* Number of calls made to the free helper log_audit_event.
MaxHelperCalls == 1

Requests == 1..MaxRequests

\* Python's None in a string-typed slot, and in a dict-typed slot.
None == "<None>"
NoneDict == [none__ |-> TRUE]
EmptyDict == [k \in {} |-> None]

\* A slot that holds no object yet.
Nothing == [kind |-> "none"]

(***************************************************************************)
(* Inputs: requests, handler results.                                      *)
(***************************************************************************)
ForwardedFor == "203.0.113.5"
RealIp == "198.51.100.7"
PeerHost == "192.0.2.1"

\* Request(method, path, raw query string, names of the forwarding headers
\* sent, user-agent header or None, request.client or Nothing).
Request(method, path, query, forwarding, agent, client) ==
  [kind |-> "request",
   method |-> method,
   url |-> [path |-> path, query |-> query],
   headers |->
     [h \in forwarding \cup (IF agent = None THEN {} ELSE {"user-agent"}) |->
        IF h = "x-forwarded-for" THEN ForwardedFor
        ELSE IF h = "x-real-ip" THEN RealIp
        ELSE agent],
   client |-> client]

Peer == [kind |-> "address", host |-> PeerHost]

\* The requests clients send: every combination of x-forwarded-for,
\* x-real-ip and request.client present or absent, over two request lines,
\* one without a query string and one with.
RequestSet ==
  { Request("GET", "/api/products", "", {}, None, Nothing),
    Request("POST", "/api/orders", "page=2", {}, "curl/8.0", Peer),
    Request("POST", "/api/orders", "page=2", {"x-real-ip"}, "curl/8.0", Nothing),
    Request("GET", "/api/products", "", {"x-real-ip"}, None, Peer),
    Request("POST", "/api/orders", "page=2", {"x-forwarded-for"}, "curl/8.0",
            Nothing),
    Request("GET", "/api/products", "", {"x-forwarded-for"}, None, Peer),
    Request("GET", "/api/products", "", {"x-forwarded-for", "x-real-ip"}, None,
            Nothing),
    Request("POST", "/api/orders", "page=2", {"x-forwarded-for", "x-real-ip"},
            "curl/8.0", Peer) }

\* Responses a handler can return; 399 and 400 are the two sides of the
\* outcome boundary.
StatusCodes == {200, 399, 400}
ResponseSet ==
  { [kind |-> "response", status_code |-> s,
     body |-> IF s < 400 THEN "ok" ELSE "error"] : s \in StatusCodes }

\* Python exception objects: the class name and the constructor arguments.
\* ExceptionClasses are the classes that derive from Exception.
ExceptionClasses == {"RuntimeError", "ValueError", "OSError"}

Exc(type, args) == [kind |-> "exception", type |-> type, args |-> args]

HandlerExceptions ==
  { Exc("RuntimeError", <<"boom">>), Exc("ValueError", <<>>),
    Exc("KeyboardInterrupt", <<>>) }

CancelledError == Exc("CancelledError", <<>>)
EmitError == Exc("OSError", <<"audit sink unavailable">>)

(***************************************************************************)
(* Python built-ins used by the code.                                      *)
(***************************************************************************)
\* Mapping.get(key, default): dict.get and request.headers.get.
Get(d, key, default) == IF key \in DOMAIN d THEN d[key] ELSE default

\* (variant: plain assignment of `other` in place of the merge)
UpdateAssigns(d, other) == other

\* dict.update(other): keys of `other` are added or overwritten.
Update(d, other) ==
  [k \in DOMAIN d \cup DOMAIN other |->
     IF k \in DOMAIN other THEN other[k] ELSE d[k]]

\* `details or {}`: None and the empty dict are both falsy.
OrEmpty(d) == IF d = NoneDict \/ DOMAIN d = {} THEN EmptyDict ELSE d

\* str(e) of an exception: "" without arguments, the argument when there
\* is one.
Str(e) == IF Len(e.args) = 0 THEN "" ELSE e.args[1]

\* type(e).__name__
TypeName(e) == e.type

\* isinstance(e, Exception), what `except Exception` matches.
\* asyncio.CancelledError and KeyboardInterrupt derive from BaseException
\* only (Python 3.8 and later).
\* (variant: CancelledError as an Exception subclass, as before Python 3.8)
IsExceptionPy37(e) == e.type \in ExceptionClasses \cup {"CancelledError"}
IsException(e) == e.type \in ExceptionClasses

(***************************************************************************)
(* State.                                                                  *)
(***************************************************************************)
VARIABLES
  pc,            \* per request: where its dispatch call is
  request,       \* per request: the Request passed to dispatch
  handlerArg,    \* per request: the argument dispatch gave to call_next
  audit_event,   \* per request: dispatch's local AuditEvent object
  handlerResult, \* per request: what the downstream handler produced
  callerSees,    \* per request: what dispatch handed back to its caller
  trace,         \* per request: statements dispatch has run, in order
  audit_log,     \* lines written to the "brainsait.audit" channel
  constructed,   \* number of AuditEvent objects constructed so far
  channel,       \* behaviour of the handlers attached to the channel
  helperCalls    \* keyword arguments of the log_audit_event calls made

vars == <<pc, request, handlerArg, audit_event, handlerResult, callerSees,
          trace, audit_log, constructed, channel, helperCalls>>

requestVars == <<pc, request, handlerArg, audit_event, handlerResult,
                 callerSees, trace>>

(***************************************************************************)
(* AuditEvent.                                                             *)
(***************************************************************************)
\* str(uuid4()): a value no earlier event has.
Uuid4 == constructed + 1

\* datetime.utcnow().isoformat(): the clock, which ticks with every
\* construction.
UtcNow == constructed + 1

\* AuditEvent.__init__ called with the keyword arguments kw.
AuditEvent(kw) ==
  [kind |-> "AuditEvent",
   id |-> Uuid4,
   timestamp |-> UtcNow,
   user_id |-> Get(kw, "user_id", None),
   user_role |-> Get(kw, "user_role", None),
   action |-> kw.action,
   resource |-> kw.resource,
   resource_id |-> Get(kw, "resource_id", None),
   outcome |-> Get(kw, "outcome", "success"),
   source_ip |-> Get(kw, "source_ip", "unknown"),
   user_agent |-> Get(kw, "user_agent", "unknown"),
   session_id |-> Get(kw, "session_id", None),
   details |-> OrEmpty(Get(kw, "details", NoneDict)),
   phi_accessed |-> Get(kw, "phi_accessed", FALSE)]

\* AuditEvent.to_dict: the mapping json.dumps turns into the log line.
to_dict(self) ==
  [id |-> self.id,
   timestamp |-> self.timestamp,
   user_id |-> self.user_id,
   user_role |-> self.user_role,
   action |-> self.action,
   resource |-> self.resource,
   resource_id |-> self.resource_id,
   outcome |-> self.outcome,
   source_ip |-> self.source_ip,
   user_agent |-> self.user_agent,
   session_id |-> self.session_id,
   details |-> self.details,
   phi_accessed |-> self.phi_accessed]

\* The handler configured at import is a StreamHandler, whose emit catches
\* what goes wrong and never raises; `if not audit_logger.handlers` leaves
\* the channel to handlers attached by others, which may raise.
ConfiguredChannel == "StreamHandler"
Channels == {ConfiguredChannel, "raising"}

\* What one audit_logger.info call can do on a channel.
EmitOutcomes(ch) == IF ch = ConfiguredChannel THEN {"ok"} ELSE {"ok", "raise"}

\* AuditEvent.log: the channel after the call, given what the call did.
log(self, lines, outcome) ==
  IF outcome = "ok" THEN Append(lines, to_dict(self)) ELSE lines

(***************************************************************************)
(* AuditMiddleware.dispatch.                                               *)
(***************************************************************************)
\* (variant: x-real-ip looked up first)
source_ip_real_first(req) ==
  Get(req.headers, "x-real-ip",
      Get(req.headers, "x-forwarded-for",
          IF req.client # Nothing THEN req.client.host ELSE "unknown"))

\* Lines 79-81: the nested headers.get defaults.
source_ip(req) ==
  Get(req.headers, "x-forwarded-for",
      Get(req.headers, "x-real-ip",
          IF req.client # Nothing THEN req.client.host ELSE "unknown"))

\* Line 82.
user_agent(req) == Get(req.headers, "user-agent", "unknown")

\* Lines 85-95: the event dispatch constructs for a request.
RequestEvent(req) ==
  AuditEvent([action |-> "api.request",
              resource |-> req.url.path,
              source_ip |-> source_ip(req),
              user_agent |-> user_agent(req),
              details |-> [method |-> req.method,
                           path |-> req.url.path,
                           query |-> IF req.url.query # ""
                                       THEN req.url.query ELSE None]])

\* (variant: the comparison off by one, `<= 400`)
SuccessUpdateInclusive(ev, response) ==
  [ev EXCEPT
     !.outcome = IF response.status_code <= 400 THEN "success" ELSE "failure",
     !.details = Update(@, [status_code |-> response.status_code,
                            response_time_ms |-> None])]

\* Lines 102-106: the event after the handler returned `response`.
SuccessUpdate(ev, response) ==
  [ev EXCEPT
     !.outcome = IF response.status_code < 400 THEN "success" ELSE "failure",
     !.details = Update(@, [status_code |-> response.status_code,
                            response_time_ms |-> None])]

\* (variant: repr-style message, the type name in place of str(e))
FailureUpdateTypeAsError(ev, e) ==
  [ev EXCEPT
     !.outcome = "failure",
     !.details = Update(@, [error |-> TypeName(e),
                            exception_type |-> TypeName(e)])]

\* Lines 115-119: the event after `except Exception as e` caught e.
FailureUpdate(ev, e) ==
  [ev EXCEPT
     !.outcome = "failure",
     !.details = Update(@, [error |-> Str(e),
                            exception_type |-> TypeName(e)])]

\* (variant: a fresh response built from the status code alone)
ReturnValueRebuilt(response) == [response EXCEPT !.body = ""]

\* Line 111: what dispatch returns.
ReturnValue(response) == response

\* Lines 77-99, up to the suspension in `await call_next(request)`.
Receive(r, req) ==
  /\ pc[r] = "Start"
  /\ \A q \in Requests : q < r => pc[q] # "Start"
  /\ request' = [request EXCEPT ![r] = req]
  /\ audit_event' = [audit_event EXCEPT ![r] = RequestEvent(req)]
  /\ constructed' = constructed + 1
  /\ handlerArg' = [handlerArg EXCEPT ![r] = req]
  /\ trace' = [trace EXCEPT ![r] = <<"construct", "call_next">>]
  /\ pc' = [pc EXCEPT ![r] = "Handling"]
  /\ UNCHANGED <<handlerResult, callerSees, audit_log, channel, helperCalls>>

\* (variant: `raise` before the event is logged)
ExceptBranchRaiseFirst(r, ev, e, ran, emit) ==
  /\ audit_event' = [audit_event EXCEPT ![r] = FailureUpdate(ev, e)]
  /\ audit_log' = audit_log
  /\ trace' = [trace EXCEPT ![r] = ran \o <<"mutate", "raise">>]
  /\ callerSees' = [callerSees EXCEPT ![r] = e]
  /\ pc' = [pc EXCEPT ![r] = "Raised"]

\* (variant: the event logged before outcome and details are set)
ExceptBranchLogFirst(r, ev, e, ran, emit) ==
  /\ audit_event' = [audit_event EXCEPT ![r] = FailureUpdate(ev, e)]
  /\ audit_log' = log(ev, audit_log, emit)
  /\ trace' = [trace EXCEPT ![r] = ran \o <<"log", "mutate", "raise">>]
  /\ callerSees' = [callerSees EXCEPT ![r] =
                      IF emit = "ok" THEN e ELSE EmitError]
  /\ pc' = [pc EXCEPT ![r] = "Raised"]

\* Lines 113-121: the except branch, entered with the event as it is, the
\* exception caught, and the statements run so far.
ExceptBranch(r, ev, e, ran, emit) ==
  /\ audit_event' = [audit_event EXCEPT ![r] = FailureUpdate(ev, e)]
  /\ audit_log' = log(FailureUpdate(ev, e), audit_log, emit)
  /\ trace' = [trace EXCEPT ![r] = ran \o <<"mutate", "log", "raise">>]
  /\ callerSees' = [callerSees EXCEPT ![r] =
                      IF emit = "ok" THEN e ELSE EmitError]
  /\ pc' = [pc EXCEPT ![r] = "Raised"]

\* An exception that `except Exception` does not match leaves dispatch as
\* it came.
Propagate(r, e, ran) ==
  /\ trace' = [trace EXCEPT ![r] = ran \o <<"propagate">>]
  /\ callerSees' = [callerSees EXCEPT ![r] = e]
  /\ pc' = [pc EXCEPT ![r] = "Propagated"]
  /\ UNCHANGED <<audit_event, audit_log>>

\* call_next raised e at line 99.
AwaitRaised(r, e, ran, emit) ==
  IF IsException(e) THEN ExceptBranch(r, audit_event[r], e, ran, emit)
  ELSE Propagate(r, e, ran)

\* (variant: the event kept on the middleware object, `self.audit_event`,
\* so that the resumed call reads the event of the latest request)
HandlerReturnsSharedEvent(r, response) ==
  /\ pc[r] = "Handling"
  /\ handlerResult' = [handlerResult EXCEPT ![r] = response]
  /\ \E emit1, emit2 \in EmitOutcomes(channel) :
       LET ev == SuccessUpdate(audit_event[constructed], response)
           ran == trace[r] \o <<"handler_returned", "mutate", "log">>
       IN IF emit1 = "ok"
            THEN /\ audit_event' = [audit_event EXCEPT ![constructed] = ev]
                 /\ audit_log' = log(ev, audit_log, emit1)
                 /\ trace' = [trace EXCEPT ![r] = ran \o <<"return">>]
                 /\ callerSees' = [callerSees EXCEPT ![r] =
                                     ReturnValue(response)]
                 /\ pc' = [pc EXCEPT ![r] = "Returned"]
            ELSE ExceptBranch(r, ev, EmitError, ran, emit2)
  /\ UNCHANGED <<request, handlerArg, constructed, channel, helperCalls>>

\* Lines 99-111 (and 113-121 when line 109 raises): the downstream
\* handler returned `response`.
HandlerReturns(r, response) ==
  /\ pc[r] = "Handling"
  /\ handlerResult' = [handlerResult EXCEPT ![r] = response]
  /\ \E emit1, emit2 \in EmitOutcomes(channel) :
       LET ev == SuccessUpdate(audit_event[r], response)
           ran == trace[r] \o <<"handler_returned", "mutate", "log">>
       IN IF emit1 = "ok"
            THEN /\ audit_event' = [audit_event EXCEPT ![r] = ev]
                 /\ audit_log' = log(ev, audit_log, emit1)
                 /\ trace' = [trace EXCEPT ![r] = ran \o <<"return">>]
                 /\ callerSees' = [callerSees EXCEPT ![r] =
                                     ReturnValue(response)]
                 /\ pc' = [pc EXCEPT ![r] = "Returned"]
            ELSE ExceptBranch(r, ev, EmitError, ran, emit2)
  /\ UNCHANGED <<request, handlerArg, constructed, channel, helperCalls>>

\* Lines 99 and 113-121: the downstream handler raised e.
HandlerRaises(r, e) ==
  /\ pc[r] = "Handling"
  /\ handlerResult' = [handlerResult EXCEPT ![r] = e]
  /\ \E emit \in EmitOutcomes(channel) :
       AwaitRaised(r, e, trace[r] \o <<"handler_raised">>, emit)
  /\ UNCHANGED <<request, handlerArg, constructed, channel, helperCalls>>

\* An outer layer cancels the task while it is suspended at line 99:
\* CancelledError is thrown into the coroutine at the await.
Cancel(r) ==
  /\ pc[r] = "Handling"
  /\ handlerResult' = [handlerResult EXCEPT ![r] = [kind |-> "cancelled"]]
  /\ \E emit \in EmitOutcomes(channel) :
       AwaitRaised(r, CancelledError, trace[r] \o <<"cancelled">>, emit)
  /\ UNCHANGED <<request, handlerArg, constructed, channel, helperCalls>>

(***************************************************************************)
(* log_audit_event.                                                        *)
(***************************************************************************)
\* (variant: phi_accessed not passed on)
HelperKeywordsNoPhi(args) ==
  [action |-> args.action,
   resource |-> args.resource,
   outcome |-> Get(args, "outcome", "success"),
   user_id |-> Get(args, "user_id", None),
   resource_id |-> Get(args, "resource_id", None),
   details |-> Get(args, "details", NoneDict)]

\* Lines 161-169: the keyword arguments the helper passes on, each
\* parameter at its value or, when the caller left it out, its default.
HelperKeywords(args) ==
  [action |-> args.action,
   resource |-> args.resource,
   outcome |-> Get(args, "outcome", "success"),
   user_id |-> Get(args, "user_id", None),
   resource_id |-> Get(args, "resource_id", None),
   details |-> Get(args, "details", NoneDict),
   phi_accessed |-> Get(args, "phi_accessed", FALSE)]

\* Lines 151-170.
log_audit_event(args) ==
  /\ Len(helperCalls) < MaxHelperCalls
  /\ helperCalls' = Append(helperCalls, args)
  /\ constructed' = constructed + 1
  /\ \E emit \in EmitOutcomes(channel) :
       audit_log' = log(AuditEvent(HelperKeywords(args)), audit_log, emit)
  /\ UNCHANGED <<requestVars, channel>>

\* Arguments callers give the helper: action and resource always, the rest
\* given or left out.
HelperOptional ==
  [outcome |-> "failure", user_id |-> "u-17", resource_id |-> "o-9",
   details |-> [reason |-> "duplicate"], phi_accessed |-> TRUE]

HelperArgs ==
  { [k \in {"action", "resource"} \cup S |->
       IF k = "action" THEN a
       ELSE IF k = "resource" THEN res
       ELSE HelperOptional[k]] :
      a \in {"order.cancel", "user.login"}, res \in {"order", "session"},
      S \in SUBSET DOMAIN HelperOptional }

(***************************************************************************)
(* Specifications.                                                         *)
(***************************************************************************)
InitRequests ==
  /\ pc = [r \in Requests |-> "Start"]
  /\ request = [r \in Requests |-> Nothing]
  /\ handlerArg = [r \in Requests |-> Nothing]
  /\ audit_event = [r \in Requests |-> Nothing]
  /\ handlerResult = [r \in Requests |-> Nothing]
  /\ callerSees = [r \in Requests |-> Nothing]
  /\ trace = [r \in Requests |-> <<>>]
  /\ audit_log = <<>>
  /\ constructed = 0
  /\ helperCalls = <<>>

\* The application of main.py: the middleware on the channel as configured.
Init == InitRequests /\ channel = ConfiguredChannel

Next ==
  \/ \E r \in Requests, req \in RequestSet : Receive(r, req)
  \/ \E r \in Requests, response \in ResponseSet : HandlerReturns(r, response)
  \/ \E r \in Requests, e \in HandlerExceptions : HandlerRaises(r, e)
  \/ \E r \in Requests : Cancel(r)

Spec == Init /\ [][Next]_vars

\* The middleware on a channel whose handlers may raise.
InitEmitFail == InitRequests /\ channel = "raising"

SpecEmitFail == InitEmitFail /\ [][Next]_vars

\* Callers of the helper, on the channel as configured.
NextHelper == \E args \in HelperArgs : log_audit_event(args)

SpecHelper == Init /\ [][NextHelper]_vars

(***************************************************************************)
(* Properties.                                                             *)
(***************************************************************************)
\* Number of calls dispatch has made to AuditEvent.log for request r.
LogCalls(r) == Cardinality({i \in DOMAIN trace[r] : trace[r][i] = "log"})

\* The lines of the channel that carry the id of r's event.
RecordsOf(r) ==
  IF pc[r] = "Start" THEN {}
  ELSE {i \in DOMAIN audit_log : audit_log[i].id = audit_event[r].id}

\* The statement at which dispatch handed control back, when it did.
Last(seq) == IF seq = <<>> THEN "nothing" ELSE seq[Len(seq)]

\* dispatch has handed control back to its caller.
HandedBack(r) == pc[r] \in {"Returned", "Raised", "Propagated"}

\* The handler of r returned a response / raised exception e.
Responded(r) == handlerResult[r].kind = "response"
Raised(r) == handlerResult[r].kind = "exception"

\* C1 as stated: every request dispatch has handed back, by whatever exit,
\* has exactly one audit record and one call of AuditEvent.log.
C1_EveryRequestHasOneRecord ==
  \A r \in Requests :
    HandedBack(r) => LogCalls(r) = 1 /\ Cardinality(RecordsOf(r)) = 1

\* C1 as amended: a request whose handler returned a response or raised an
\* Exception subclass has exactly one call of AuditEvent.log and one audit
\* record, and the call comes before the return or raise that ends
\* dispatch; no request ever has more than one; a request that leaves
\* dispatch by an exception `except Exception` does not match (cancelled at
\* the await, KeyboardInterrupt) has none.
C1_OneRecordBeforeControlReturns ==
  \A r \in Requests :
    /\ LogCalls(r) <= 1
    /\ Cardinality(RecordsOf(r)) = LogCalls(r)
    /\ (Responded(r) \/ (Raised(r) /\ handlerResult[r].type \in ExceptionClasses))
         => /\ pc[r] \in {"Returned", "Raised"}
            /\ LogCalls(r) = 1
            /\ Len(trace[r]) >= 2
            /\ trace[r][Len(trace[r]) - 1] = "log"
            /\ Last(trace[r]) \in {"return", "raise"}
    /\ pc[r] = "Propagated" => LogCalls(r) = 0

\* C1 witness: one request handed back as a response and one as a
\* re-raised exception, each with its record written.
C1_Witness ==
  \E r, q \in Requests :
    /\ pc[r] = "Returned" /\ pc[q] = "Raised"
    /\ Cardinality(RecordsOf(r)) = 1 /\ Cardinality(RecordsOf(q)) = 1

\* C2: when the handler returned a response, the record of the request has
\* outcome "success" for a status code below 400 and "failure" from 400
\* up, and details.status_code is that status code.
C2_OutcomeFollowsStatusCode ==
  \A r \in Requests :
    Responded(r) =>
      /\ RecordsOf(r) # {}
      /\ \A i \in RecordsOf(r) :
           LET rec == audit_log[i]
               code == handlerResult[r].status_code
           IN /\ "status_code" \in DOMAIN rec.details
              /\ rec.details.status_code = code
              /\ code < 400 => rec.outcome = "success"
              /\ code >= 400 => rec.outcome = "failure"

\* C2 witness: both sides of the boundary, a 399 logged as success and a
\* 400 logged as failure.
C2_Witness ==
  \E r, q \in Requests :
    /\ Responded(r) /\ handlerResult[r].status_code = 399
    /\ Responded(q) /\ handlerResult[q].status_code = 400
    /\ \E i \in RecordsOf(r) : audit_log[i].outcome = "success"
    /\ \E i \in RecordsOf(q) : audit_log[i].outcome = "failure"

\* The record of r names the exception e the way lines 116-119 do.
FailureRecorded(r, e) ==
  /\ Cardinality(RecordsOf(r)) = 1
  /\ \A i \in RecordsOf(r) :
       LET rec == audit_log[i]
       IN /\ rec.outcome = "failure"
          /\ {"error", "exception_type"} \subseteq DOMAIN rec.details
          /\ rec.details.exception_type = e.type
          /\ rec.details.exception_type # ""
          /\ rec.details.error = (IF e.args = <<>> THEN "" ELSE e.args[1])

\* C3 as stated: for every exception the handler raises, the record has
\* outcome "failure", a non-empty exception type and a non-empty message,
\* and the caller observes the original exception.
C3_EveryExceptionRecordedNonEmpty ==
  \A r \in Requests :
    Raised(r) =>
      /\ FailureRecorded(r, handlerResult[r])
      /\ \A i \in RecordsOf(r) : audit_log[i].details.error # ""
      /\ callerSees[r] = handlerResult[r]

\* C3 as amended: for every exception of an Exception subclass the handler
\* raises, the record has outcome "failure", details.exception_type is the
\* (non-empty) class name and details.error is str(e), which is empty when
\* the exception carries no message; the caller observes the original
\* exception.
C3_ExceptionRecordedAndReraised ==
  \A r \in Requests :
    (Raised(r) /\ handlerResult[r].type \in ExceptionClasses) =>
      /\ FailureRecorded(r, handlerResult[r])
      /\ pc[r] = "Raised"
      /\ callerSees[r] = handlerResult[r]

\* C3 witness: a handler raised ValueError() and the record carries the
\* class name with an empty message, while the caller got the ValueError.
C3_Witness ==
  \E r \in Requests :
    /\ Raised(r) /\ handlerResult[r] = Exc("ValueError", <<>>)
    /\ callerSees[r] = handlerResult[r]
    /\ \E i \in RecordsOf(r) :
         /\ audit_log[i].details.error = ""
         /\ audit_log[i].details.exception_type = "ValueError"

\* The source address by the stated precedence.
ExpectedSourceIp(req) ==
  IF "x-forwarded-for" \in DOMAIN req.headers
    THEN req.headers["x-forwarded-for"]
  ELSE IF "x-real-ip" \in DOMAIN req.headers
    THEN req.headers["x-real-ip"]
  ELSE IF req.client.kind = "address" THEN req.client.host
  ELSE "unknown"

\* C4: source_ip of the event, and of every record written for it, is the
\* x-forwarded-for value if present, else the x-real-ip value if present,
\* else the peer address if the request has a client, else "unknown".
C4_SourceIpPrecedence ==
  \A r \in Requests :
    pc[r] # "Start" =>
      /\ audit_event[r].source_ip = ExpectedSourceIp(request[r])
      /\ \A i \in RecordsOf(r) :
           audit_log[i].source_ip = ExpectedSourceIp(request[r])

\* C4 witness: a request with x-forwarded-for, x-real-ip and a peer
\* address all present was logged with the x-forwarded-for value.
C4_Witness ==
  \E r \in Requests :
    /\ pc[r] \in {"Returned", "Raised"}
    /\ {"x-forwarded-for", "x-real-ip"} \subseteq DOMAIN request[r].headers
    /\ request[r].client = Peer
    /\ \E i \in RecordsOf(r) : audit_log[i].source_ip = ForwardedFor

\* C5: in every record of a request, on the success path and on the
\* exception path, details.method and details.path are the request's
\* method and path, resource is the path, action is "api.request", and
\* details.query is None for an empty query string and the raw query
\* string otherwise.
C5_RequestDetailsVerbatim ==
  \A r \in Requests :
    /\ pc[r] \in {"Returned", "Raised"} => RecordsOf(r) # {}
    /\ \A i \in RecordsOf(r) :
         LET rec == audit_log[i]
             req == request[r]
         IN /\ {"method", "path", "query"} \subseteq DOMAIN rec.details
            /\ rec.details.method = req.method
            /\ rec.details.path = req.url.path
            /\ rec.resource = req.url.path
            /\ rec.action = "api.request"
            /\ req.url.query = "" => rec.details.query = None
            /\ req.url.query # "" => rec.details.query = req.url.query

\* C5 witness: a request with a query string logged on the exception path
\* and a request without one logged on the success path.
C5_Witness ==
  \E r, q \in Requests :
    /\ pc[r] = "Raised" /\ request[r].url.query = "page=2"
    /\ \E i \in RecordsOf(r) : audit_log[i].details.query = "page=2"
    /\ pc[q] = "Returned" /\ request[q].url.query = ""
    /\ \E i \in RecordsOf(q) : audit_log[i].details.query = None

\* C6: when the handler returned a response, dispatch returns that
\* response, status code and content unchanged, and not an error; the
\* handler was given the request dispatch received.
C6_ResponsePassedThrough ==
  \A r \in Requests :
    /\ pc[r] # "Start" => handlerArg[r] = request[r]
    /\ Responded(r) =>
         /\ pc[r] = "Returned"
         /\ callerSees[r].kind = "response"
         /\ callerSees[r].status_code = handlerResult[r].status_code
         /\ callerSees[r].body = handlerResult[r].body

\* C6 witness: a response with an error status came back to the caller as
\* that response.
C6_Witness ==
  \E r \in Requests :
    /\ Responded(r) /\ handlerResult[r].status_code = 400
    /\ pc[r] = "Returned" /\ callerSees[r] = handlerResult[r]

\* C7: a request cancelled while dispatch is suspended in the handler, or
\* still suspended there, has no audit record: the except branch did not
\* run, the event is as constructed, and the CancelledError reaches the
\* caller.
C7_NoRecordOnCancellation ==
  \A r \in Requests :
    /\ pc[r] = "Handling" => RecordsOf(r) = {} /\ LogCalls(r) = 0
    /\ handlerResult[r].kind = "cancelled" =>
         /\ RecordsOf(r) = {}
         /\ LogCalls(r) = 0
         /\ audit_event[r].outcome = "success"
         /\ DOMAIN audit_event[r].details = {"method", "path", "query"}
         /\ callerSees[r] = CancelledError
         /\ pc[r] = "Propagated"

\* C7 witness: one request was cancelled and left no line, while another
\* completed and was logged.
C7_Witness ==
  \E r, q \in Requests :
    /\ handlerResult[r].kind = "cancelled" /\ RecordsOf(r) = {}
    /\ pc[q] = "Returned" /\ RecordsOf(q) # {}

\* C8: each call log_audit_event(args) writes exactly one record, whose
\* action, resource, outcome, user_id, resource_id, details and
\* phi_accessed are the arguments (outcome "success", details {} and
\* phi_accessed false when left out), with user_role and session_id None
\* and source_ip and user_agent "unknown"; nothing else changes.
C8_HelperIsConstructThenLog ==
  /\ Len(audit_log) = Len(helperCalls)
  /\ constructed = Len(helperCalls)
  /\ \A r \in Requests : pc[r] = "Start"
  /\ \A i \in DOMAIN helperCalls :
       LET args == helperCalls[i]
           rec == audit_log[i]
       IN /\ DOMAIN rec = {"id", "timestamp", "user_id", "user_role", "action",
                           "resource", "resource_id", "outcome", "source_ip",
                           "user_agent", "session_id", "details",
                           "phi_accessed"}
          /\ rec.action = args.action
          /\ rec.resource = args.resource
          /\ rec.outcome = (IF "outcome" \in DOMAIN args
                              THEN args.outcome ELSE "success")
          /\ rec.user_id = (IF "user_id" \in DOMAIN args
                              THEN args.user_id ELSE None)
          /\ rec.resource_id = (IF "resource_id" \in DOMAIN args
                                  THEN args.resource_id ELSE None)
          /\ rec.details = (IF "details" \in DOMAIN args
                              THEN args.details ELSE EmptyDict)
          /\ rec.phi_accessed = (IF "phi_accessed" \in DOMAIN args
                                   THEN args.phi_accessed ELSE FALSE)
          /\ rec.user_role = None
          /\ rec.session_id = None
          /\ rec.source_ip = "unknown"
          /\ rec.user_agent = "unknown"

\* C8 witness: a call with every argument given, PHI flag included, has
\* been logged.
C8_Witness ==
  \E i \in DOMAIN helperCalls :
    /\ DOMAIN helperCalls[i] = {"action", "resource"} \cup DOMAIN HelperOptional
    /\ i \in DOMAIN audit_log
    /\ audit_log[i].phi_accessed = TRUE
    /\ audit_log[i].user_id = "u-17"

\* C9: when AuditEvent.log raises on the success path, dispatch does not
\* intercept it: for a request whose handler returned a response the event
\* keeps the outcome its status code gives, gets no error details, and
\* log is not called a second time.
C9_EmitErrorNotIntercepted ==
  \A r \in Requests :
    Responded(r) =>
      /\ LogCalls(r) <= 1
      /\ audit_event[r].outcome =
           (IF handlerResult[r].status_code < 400 THEN "success" ELSE "failure")
      /\ "error" \notin DOMAIN audit_event[r].details

\* The statements dispatch may have run, in the order of the lifecycle
\* Start, Pending (constructed), Handling (handler invoked), Completed.
Lifecycles ==
  { <<>>,
    <<"construct", "call_next">>,
    <<"construct", "call_next", "handler_returned", "mutate", "log", "return">>,
    <<"construct", "call_next", "handler_raised", "mutate", "log", "raise">>,
    <<"construct", "call_next", "handler_raised", "propagate">>,
    <<"construct", "call_next", "cancelled", "propagate">> }

DescribesOwnRequest(rec, r) ==
  /\ rec.id = audit_event[r].id
  /\ rec.resource = request[r].url.path
  /\ rec.source_ip = ExpectedSourceIp(request[r])
  /\ {"method", "path", "query"} \subseteq DOMAIN rec.details
  /\ rec.details.method = request[r].method
  /\ rec.details.path = request[r].url.path
  /\ rec.details.query =
       (IF request[r].url.query = "" THEN None ELSE request[r].url.query)
  /\ \/ /\ Responded(r)
        /\ "status_code" \in DOMAIN rec.details
        /\ "error" \notin DOMAIN rec.details
        /\ rec.details.status_code = handlerResult[r].status_code
        /\ rec.outcome = (IF handlerResult[r].status_code < 400
                            THEN "success" ELSE "failure")
     \/ /\ Raised(r)
        /\ {"error", "exception_type"} \subseteq DOMAIN rec.details
        /\ "status_code" \notin DOMAIN rec.details
        /\ rec.details.exception_type = handlerResult[r].type
        /\ rec.details.error = (IF handlerResult[r].args = <<>>
                                  THEN "" ELSE handlerResult[r].args[1])
        /\ rec.outcome = "failure"

\* C11: whatever the order in which concurrent requests suspend at the
\* handler and resume, the events of different requests have different
\* ids, every line of the channel is the record of exactly one request and
\* describes that request and its own handler result, and every request
\* handed back as a response or a re-raised exception has its own line.
C11_RecordsDescribeOwnRequest ==
  /\ \A r, q \in Requests :
       (r # q /\ pc[r] # "Start" /\ pc[q] # "Start")
         => audit_event[r].id # audit_event[q].id
  /\ \A i \in DOMAIN audit_log :
       \E r \in Requests :
         /\ pc[r] \in {"Returned", "Raised"}
         /\ DescribesOwnRequest(audit_log[i], r)
  /\ \A r \in Requests :
       pc[r] \in {"Returned", "Raised"} =>
         /\ Cardinality(RecordsOf(r)) = 1
         /\ \A i \in RecordsOf(r) : DescribesOwnRequest(audit_log[i], r)

\* C11 witness: two requests with different paths, source addresses and
\* handler results were in flight together and resumed in the reverse
\* order (the later arrival logged first), each with its own record.
C11_Witness ==
  /\ MaxRequests >= 2
  /\ Len(audit_log) >= 2
  /\ pc[1] = "Returned" /\ pc[2] = "Raised"
  /\ request[1].url.path # request[2].url.path
  /\ ExpectedSourceIp(request[1]) # ExpectedSourceIp(request[2])
  /\ audit_log[1].id = audit_event[2].id
  /\ audit_log[2].id = audit_event[1].id
  /\ DescribesOwnRequest(audit_log[1], 2)
  /\ DescribesOwnRequest(audit_log[2], 1)

====
